---- MODULE Spec2Model ----
(***************************************************************************)
(* A model of the BiDi Browser session manager                             *)
(* (packages/puppeteer-core/src/common/bidi/Browser.ts).                   *)
(*                                                                         *)
(* Strings that the code inspects (the engine name and version) are        *)
(* sequences of one-character strings, so that lower-casing, substring     *)
(* search and the version() template are computed as the code computes     *)
(* them. An optional value (a capability that may be undefined) is a set    *)
(* with at most one element. Browsing-context ids are 1..MaxCtx and 0       *)
(* stands for "no parent"; Browser Context 0 is the default context.       *)
(***************************************************************************)
EXTENDS Integers, Sequences, FiniteSets, TLC

\* ------------------------------------------------------------------ bounds
MaxCtx == 2
MaxTargets == 3
MaxPending == 2
MaxCloseCalls == 2
MaxBootEvents == 2
MaxIncognito == 1

Ctx == 1..MaxCtx
Urls == {"about:blank", "http://a/"}

\* ---------------------------------------------------------------- strings
UpperCase == <<"A","B","C","D","E","F","G","H","I","J","K","L","M",
               "N","O","P","Q","R","S","T","U","V","W","X","Y","Z">>
LowerCase == <<"a","b","c","d","e","f","g","h","i","j","k","l","m",
               "n","o","p","q","r","s","t","u","v","w","x","y","z">>

\* Host locales: String.prototype.toLocaleLowerCase() with no argument lowers
\* under the default locale of the host; under a Turkic locale (tr, az) the
\* capital I lowers to the dotless i (U+0131), written "i-dotless" here.
Locales == {"en-US", "tr-TR"}
TurkicLocales == {"tr-TR"}

LowerChar(ch, loc) ==
  IF ch = "I" /\ loc \in TurkicLocales THEN "i-dotless"
  ELSE IF \E i \in 1..Len(UpperCase) : UpperCase[i] = ch
       THEN LowerCase[CHOOSE i \in 1..Len(UpperCase) : UpperCase[i] = ch]
       ELSE ch

toLocaleLowerCase(s, loc) == [i \in 1..Len(s) |-> LowerChar(s[i], loc)]

includes(s, sub) ==
  \E i \in 1..(Len(s) - Len(sub) + 1) : SubSeq(s, i, i + Len(sub) - 1) = sub

\* value ?? dflt, for an optional value
Coalesce(opt, dflt) == IF opt = {} THEN dflt ELSE CHOOSE v \in opt : TRUE

firefox == <<"f","i","r","e","f","o","x">>

\* ------------------------------------------------- static subscription lists
subscribeModules == <<"browsingContext", "network", "log">>

subscribeCdpEvents ==
  << "cdp.Debugger.scriptParsed",
     "cdp.CSS.styleSheetAdded",
     "cdp.Runtime.executionContextsCleared",
     "cdp.Tracing.tracingComplete",
     "cdp.Network.requestWillBeSent",
     "cdp.Debugger.scriptParsed" >>

\* The events argument of session.subscribe (Browser.create).
SubscribeEvents(name, loc) ==
  IF includes(toLocaleLowerCase(name, loc), firefox)
  THEN subscribeModules
  ELSE subscribeModules \o subscribeCdpEvents

\* The four protocol events the Browser listens to.
connectionEventHandlers ==
  { "browsingContext.contextCreated",
    "browsingContext.contextDestroyed",
    "browsingContext.fragmentNavigated",
    "browsingContext.navigationStarted" }

\* ------------------------------------------------------------ inputs
NameFirefox == <<"f","i","r","e","f","o","x">>
NameFirefoxCap == <<"F","i","r","e","f","o","x">>
NameFirefoxUpper == <<"F","I","R","E","F","O","X">>
NameFirefoxInside == <<"x","F","i","r","e","f","o","x","y">>
NameFirefoxCut == <<"f","i","r","e","f","o">>
NameChrome == <<"C","h","r","o","m","e">>
Version115 == <<"1","1","5">>

\* capabilities.browserName / browserVersion as session.new may report them
\* ({} is an absent capability).
BootNames == { {}, {<<>>}, {NameFirefox}, {NameFirefoxCap}, {NameFirefoxUpper},
               {NameFirefoxInside}, {NameFirefoxCut}, {NameChrome} }
BootVersions == { {}, {Version115} }
MainNames == { {NameChrome} }
MainVersions == { {Version115} }

Range(s) == { s[i] : i \in 1..Len(s) }

RECURSIVE SortedSeq(_)
SortedSeq(S) ==
  IF S = {} THEN <<>>
  ELSE LET m == CHOOSE x \in S : \A y \in S : x <= y
       IN <<m>> \o SortedSeq(S \ {m})

\* A browsingContext.getTree result: the top-level contexts (no parent), each
\* with its children nested in the children field.
TreeInfo(c, p, kids) ==
  [context |-> c, parent |-> p, url |-> "about:blank", children |-> kids]

TreeOf(tops, kids) ==
  [i \in 1..Len(tops) |->
     TreeInfo(tops[i], 0,
              IF i = 1
              THEN LET ks == SortedSeq(kids)
                   IN [j \in 1..Len(ks) |-> TreeInfo(ks[j], tops[1], <<>>)]
              ELSE <<>>)]

TopLists ==
  { s \in UNION { [1..n -> Ctx] : n \in 0..MaxCtx } :
      \A i, j \in 1..Len(s) : i # j => s[i] # s[j] }

TreeShapes ==
  { sh \in TopLists \X (SUBSET Ctx) :
      /\ sh[2] \cap Range(sh[1]) = {}
      /\ (sh[2] # {} => sh[1] # <<>>)
      /\ \A k \in sh[2] : k > sh[1][1] }

TreeResults == { TreeOf(sh[1], sh[2]) : sh \in TreeShapes }

\* -------------------------------------------------- Map<string, BiDiTarget>
\* A JavaScript Map keeps its keys in insertion order; it is a sequence of
\* [key, value] entries.
MapHas(m, k) == \E i \in 1..Len(m) : m[i].key = k
MapGet(m, k) == m[CHOOSE i \in 1..Len(m) : m[i].key = k].value
MapSet(m, k, v) ==
  IF MapHas(m, k)
  THEN [i \in 1..Len(m) |->
          IF m[i].key = k THEN [key |-> k, value |-> v] ELSE m[i]]
  ELSE Append(m, [key |-> k, value |-> v])
MapDelete(m, k) == SelectSeq(m, LAMBDA e : e.key # k)
MapKeys(m) == { m[i].key : i \in 1..Len(m) }
MapValues(m) == [i \in 1..Len(m) |-> m[i].value]

\* ------------------------------------------------------------- Connection
\* Connection.getTopLevelContext over the connection's context index; 0 is
\* the thrown "Context ... does not exist".
RECURSIVE getTopLevelContext(_, _)
getTopLevelContext(index, id) ==
  IF id \notin DOMAIN index THEN 0
  ELSE IF index[id].parent = 0 THEN id
  ELSE getTopLevelContext(index, index[id].parent)

Emission(scope, id, ev, arg) ==
  [scope |-> scope, id |-> id, ev |-> ev, arg |-> arg]

\* BiDiPageTarget.page() is the Page of the target, BiDiTarget.page() is null.
HasPage(target) == target.kind = "page"

VARIABLES
  pc,               \* position of Browser.create
  failedAt,         \* the command whose failure create() propagated, or "none"
  locale,           \* default locale of the host
  eventsBeforeReturn,
                    \* the remote end sends events before create() returns
  negotiation,      \* outcome of session.new: "none", "ok", "failed"
  treeFetch,        \* outcome of browsingContext.getTree: "none", "ok", "failed"
  subscribed,       \* the session.subscribe requests sent, in order
  browserName,      \* #browserName
  browserVersion,   \* #browserVersion
  hasCloseCallback, \* whether opts.closeCallback was given
  handlersOn,       \* event names whose handler is registered on the Connection
  connClosed,       \* Connection.closed
  disposeLog,       \* who called Connection.dispose(), in order
  callbackCalls,    \* number of invocations of #closeCallback
  processExited,    \* the 'close' notification of #process has fired
  contexts,         \* #contexts
  nextBc,           \* identity of the next BrowserContext object
  targets,          \* #targets
  nextTid,          \* identity of the next Target object
  index,            \* the Connection's browsing-context index
  pending,          \* #onContextDestroyed invocations suspended at an await
  closing,          \* the _closeContext invocation suspended at an await
  closeCalls,       \* the close() invocations, in order of invocation
  emitted,          \* local events emitted by the last step, in order
  live,             \* contexts created and not destroyed afterwards
  bootEvents,       \* events handled so far while create() has not returned
  lookup            \* outcome of the last _getTargetById call, if any

vars == <<pc, failedAt, locale, eventsBeforeReturn, negotiation, treeFetch,
          subscribed, browserName, browserVersion, hasCloseCallback,
          handlersOn, connClosed, disposeLog, callbackCalls, processExited,
          contexts, nextBc, targets, nextTid, index, pending, closing,
          closeCalls, emitted, live, bootEvents, lookup>>

bootVars == <<pc, failedAt, negotiation, treeFetch, subscribed, browserName,
              browserVersion>>
connVars == <<handlersOn, connClosed, disposeLog, callbackCalls,
              processExited, closeCalls>>
registryVars == <<targets, nextTid, index, pending, live>>

\* The constructor has run: the Browser object exists.
Constructed ==
  pc \in {"getTree", "done", "failed"} /\ failedAt # "session.subscribe"

InitCommon ==
  /\ pc = "session.new"
  /\ failedAt = "none"
  /\ negotiation = "none"
  /\ treeFetch = "none"
  /\ subscribed = <<>>
  /\ browserName = <<>>
  /\ browserVersion = <<>>
  /\ handlersOn = {}
  /\ connClosed = FALSE
  /\ disposeLog = <<>>
  /\ callbackCalls = 0
  /\ processExited = FALSE
  /\ contexts = <<>>
  /\ nextBc = 0
  /\ targets = <<>>
  /\ nextTid = 1
  /\ index = <<>>
  /\ pending = <<>>
  /\ closing = {}
  /\ closeCalls = <<>>
  /\ emitted = <<>>
  /\ live = {}
  /\ bootEvents = 0
  /\ lookup = {}

Init ==
  /\ InitCommon
  /\ locale = "en-US"
  /\ hasCloseCallback = TRUE
  /\ eventsBeforeReturn = TRUE

InitBoot ==
  /\ InitCommon
  /\ locale \in Locales
  /\ hasCloseCallback = TRUE
  /\ eventsBeforeReturn = FALSE

InitShutdown ==
  /\ InitCommon
  /\ locale = "en-US"
  /\ hasCloseCallback \in BOOLEAN
  /\ eventsBeforeReturn = FALSE

InitContexts ==
  /\ InitCommon
  /\ locale = "en-US"
  /\ hasCloseCallback = TRUE
  /\ eventsBeforeReturn = FALSE

\* ---------------------------------------------------------- Browser.create
\* session.new settles and create() goes on to send session.subscribe.
Negotiated(outcome, name, version) ==
  /\ pc = "session.new"
  /\ pc' = "session.subscribe"
  /\ negotiation' = outcome
  /\ browserName' = name
  /\ browserVersion' = version
  /\ subscribed' = Append(subscribed, SubscribeEvents(name, locale))
  /\ emitted' = <<>>
  /\ UNCHANGED <<failedAt, locale, eventsBeforeReturn, treeFetch,
                 hasCloseCallback, contexts, nextBc, closing, bootEvents>>
  /\ UNCHANGED connVars
  /\ UNCHANGED registryVars
  /\ UNCHANGED lookup

NegotiateOk(nameCap, versionCap) ==
  /\ Negotiated("ok", Coalesce(nameCap, <<>>), Coalesce(versionCap, <<>>))

\* NegotiateFail without the try/catch: the rejection leaves create().
NegotiateFail_Propagates ==
  /\ pc = "session.new"
  /\ pc' = "failed"
  /\ failedAt' = "session.new"
  /\ negotiation' = "failed"
  /\ emitted' = <<>>
  /\ UNCHANGED <<locale, eventsBeforeReturn, treeFetch, subscribed,
                 browserName, browserVersion, hasCloseCallback, contexts,
                 nextBc, closing, bootEvents>>
  /\ UNCHANGED connVars
  /\ UNCHANGED registryVars
  /\ UNCHANGED lookup

\* session.new is rejected: the error is logged and the defaults are kept.
NegotiateFail ==
  /\ Negotiated("failed", <<>>, <<>>)

\* session.subscribe succeeds: the constructor runs and getTree is sent.
SubscribeOk ==
  /\ pc = "session.subscribe"
  /\ pc' = "getTree"
  /\ contexts' = Append(contexts, nextBc)
  /\ nextBc' = nextBc + 1
  /\ handlersOn' = connectionEventHandlers
  /\ emitted' = <<>>
  /\ UNCHANGED <<failedAt, locale, eventsBeforeReturn, negotiation, treeFetch,
                 subscribed, browserName, browserVersion, hasCloseCallback,
                 connClosed, disposeLog, callbackCalls, processExited,
                 closing, closeCalls, bootEvents>>
  /\ UNCHANGED registryVars
  /\ UNCHANGED lookup

SubscribeFail ==
  /\ pc = "session.subscribe"
  /\ pc' = "failed"
  /\ failedAt' = "session.subscribe"
  /\ emitted' = <<>>
  /\ UNCHANGED <<locale, eventsBeforeReturn, negotiation, treeFetch,
                 subscribed, browserName, browserVersion, hasCloseCallback,
                 contexts, nextBc, closing, bootEvents>>
  /\ UNCHANGED connVars
  /\ UNCHANGED registryVars
  /\ UNCHANGED lookup

\* ------------------------------------------------- Browser.#onContextCreated
\* ContextCreated with every target built as a page target.
ContextCreated_AllPages(R, ctxs, ev) ==
  LET index1 == (ev.context :> [parent |-> ev.parent, url |-> ev.url]) @@ R.index
  IN IF ctxs = <<>>
     THEN [R EXCEPT !.index = index1, !.threw = TRUE]
     ELSE LET bc == ctxs[Len(ctxs)]
              target == [tid |-> R.nextTid,
                         kind |-> "page",
                         browserContext |-> bc,
                         context |-> ev.context]
              top == IF ev.parent = 0 THEN 0
                     ELSE getTopLevelContext(index1, ev.parent)
          IN [index |-> index1,
              targets |-> MapSet(R.targets, ev.context, target),
              nextTid |-> R.nextTid + 1,
              emitted |-> R.emitted \o
                 << Emission("browser", 0, "targetcreated", target.tid),
                    Emission("context", bc, "targetcreated", target.tid) >> \o
                 (IF top # 0
                  THEN <<Emission("toplevel", top, "created", ev.context)>>
                  ELSE <<>>),
              threw |-> ev.parent # 0 /\ top = 0]
\* ContextCreated with the first Browser Context as the owner.
ContextCreated_OwnedByFirst(R, ctxs, ev) ==
  LET index1 == (ev.context :> [parent |-> ev.parent, url |-> ev.url]) @@ R.index
  IN IF ctxs = <<>>
     THEN [R EXCEPT !.index = index1, !.threw = TRUE]
     ELSE LET bc == ctxs[1]
              target == [tid |-> R.nextTid,
                         kind |-> IF ev.parent = 0 THEN "page" ELSE "nested",
                         browserContext |-> bc,
                         context |-> ev.context]
              top == IF ev.parent = 0 THEN 0
                     ELSE getTopLevelContext(index1, ev.parent)
          IN [index |-> index1,
              targets |-> MapSet(R.targets, ev.context, target),
              nextTid |-> R.nextTid + 1,
              emitted |-> R.emitted \o
                 << Emission("browser", 0, "targetcreated", target.tid),
                    Emission("context", bc, "targetcreated", target.tid) >> \o
                 (IF top # 0
                  THEN <<Emission("toplevel", top, "created", ev.context)>>
                  ELSE <<>>),
              threw |-> ev.parent # 0 /\ top = 0]
\* The handler as a function of the registry state R = [index, targets,
\* nextTid, emitted, threw] and of the Browser Context collection.
ContextCreated(R, ctxs, ev) ==
  LET index1 == (ev.context :> [parent |-> ev.parent, url |-> ev.url]) @@ R.index
  IN IF ctxs = <<>>
     THEN [R EXCEPT !.index = index1, !.threw = TRUE]
     ELSE LET bc == ctxs[Len(ctxs)]
              target == [tid |-> R.nextTid,
                         kind |-> IF ev.parent = 0 THEN "page" ELSE "nested",
                         browserContext |-> bc,
                         context |-> ev.context]
              top == IF ev.parent = 0 THEN 0
                     ELSE getTopLevelContext(index1, ev.parent)
          IN [index |-> index1,
              targets |-> MapSet(R.targets, ev.context, target),
              nextTid |-> R.nextTid + 1,
              emitted |-> R.emitted \o
                 << Emission("browser", 0, "targetcreated", target.tid),
                    Emission("context", bc, "targetcreated", target.tid) >> \o
                 (IF top # 0
                  THEN <<Emission("toplevel", top, "created", ev.context)>>
                  ELSE <<>>),
              threw |-> ev.parent # 0 /\ top = 0]

Registry == [index |-> index, targets |-> targets, nextTid |-> nextTid,
             emitted |-> <<>>, threw |-> FALSE]

\* The loop of #getTree: every element of result.contexts goes through the
\* handler; an exception ends the loop.
RECURSIVE SeedTree(_, _, _)
SeedTree(R, ctxs, infos) ==
  IF infos = <<>> \/ R.threw THEN R
  ELSE SeedTree(ContextCreated(R, ctxs, Head(infos)), ctxs, Tail(infos))

SetRegistry(R) ==
  /\ index' = R.index
  /\ targets' = R.targets
  /\ nextTid' = R.nextTid
  /\ emitted' = R.emitted

TopIds(result) == { result[i].context : i \in 1..Len(result) }

\* TreeOk with a loop that stops after the first element of result.contexts.
TreeOk_FirstOnly(result) ==
  /\ pc = "getTree"
  /\ nextTid + Len(result) - 1 <= MaxTargets
  /\ LET R == SeedTree(Registry, contexts,
                       IF result = <<>> THEN <<>> ELSE <<Head(result)>>)
     IN /\ SetRegistry(R)
        /\ pc' = IF R.threw THEN "failed" ELSE "done"
        /\ failedAt' = IF R.threw THEN "getTree" ELSE failedAt
  /\ treeFetch' = "ok"
  /\ live' = live \cup TopIds(result)
  /\ bootEvents' = 0
  /\ UNCHANGED <<locale, eventsBeforeReturn, negotiation, subscribed,
                 browserName, browserVersion, hasCloseCallback, contexts,
                 nextBc, pending, closing>>
  /\ UNCHANGED connVars
  /\ UNCHANGED lookup

\* browsingContext.getTree answers: #getTree seeds the registry and create()
\* returns the Browser.
TreeOk(result) ==
  /\ pc = "getTree"
  /\ nextTid + Len(result) - 1 <= MaxTargets
  /\ LET R == SeedTree(Registry, contexts, result)
     IN /\ SetRegistry(R)
        /\ pc' = IF R.threw THEN "failed" ELSE "done"
        /\ failedAt' = IF R.threw THEN "getTree" ELSE failedAt
  /\ treeFetch' = "ok"
  /\ live' = live \cup TopIds(result)
  /\ bootEvents' = 0
  /\ UNCHANGED <<locale, eventsBeforeReturn, negotiation, subscribed,
                 browserName, browserVersion, hasCloseCallback, contexts,
                 nextBc, pending, closing>>
  /\ UNCHANGED connVars
  /\ UNCHANGED lookup

\* TreeFail with the rejection caught: create() returns the Browser.
TreeFail_Swallowed ==
  /\ pc = "getTree"
  /\ pc' = "done"
  /\ treeFetch' = "failed"
  /\ emitted' = <<>>
  /\ UNCHANGED <<failedAt, locale, eventsBeforeReturn, negotiation,
                 subscribed, browserName, browserVersion, hasCloseCallback,
                 contexts, nextBc, closing, bootEvents>>
  /\ UNCHANGED connVars
  /\ UNCHANGED registryVars
  /\ UNCHANGED lookup

\* browsingContext.getTree fails: the rejection leaves #getTree and create().
TreeFail ==
  /\ pc = "getTree"
  /\ pc' = "failed"
  /\ failedAt' = "getTree"
  /\ treeFetch' = "failed"
  /\ emitted' = <<>>
  /\ UNCHANGED <<locale, eventsBeforeReturn, negotiation, subscribed,
                 browserName, browserVersion, hasCloseCallback, contexts,
                 nextBc, closing, bootEvents>>
  /\ UNCHANGED connVars
  /\ UNCHANGED registryVars
  /\ UNCHANGED lookup

\* A protocol event reaches its handler. The events handled while create()
\* has not returned a Browser are counted, and bounded.
Delivered(eventName) ==
  /\ eventName \in handlersOn
  /\ IF pc = "done"
     THEN UNCHANGED bootEvents
     ELSE /\ eventsBeforeReturn
          /\ bootEvents < MaxBootEvents
          /\ bootEvents' = bootEvents + 1

\* A browsingContext.contextCreated event is delivered. The remote end
\* announces a context that is not alive, and a parent before its children;
\* a parent has a smaller id than its child, so the context tree has no
\* cycle.
DeliverContextCreated(c, parent) ==
  /\ Delivered("browsingContext.contextCreated")
  /\ c \notin live
  /\ parent < c
  /\ parent = 0 \/ parent \in DOMAIN index
  /\ nextTid <= MaxTargets
  /\ SetRegistry(ContextCreated(Registry, contexts,
                   [context |-> c, parent |-> parent, url |-> "about:blank"]))
  /\ live' = live \cup {c}
  /\ UNCHANGED <<locale, eventsBeforeReturn, hasCloseCallback, contexts,
                 nextBc, pending, closing>>
  /\ UNCHANGED bootVars
  /\ UNCHANGED connVars
  /\ UNCHANGED lookup

\* ---------------------------------------------- Browser.#onContextNavigation
\* DeliverNavigation with target-changed emitted on the Browser alone.
DeliverNavigation_BrowserOnly(eventName, c, url) ==
  /\ Delivered(eventName)
  /\ IF c \notin DOMAIN index
     THEN /\ emitted' = <<>>
          /\ UNCHANGED index
     ELSE /\ index' = [index EXCEPT ![c].url = url]
          /\ emitted' =
               IF MapHas(targets, c)
               THEN LET target == MapGet(targets, c)
                    IN << Emission("browser", 0, "targetchanged", target.tid) >>
               ELSE <<>>
  /\ UNCHANGED <<locale, eventsBeforeReturn, hasCloseCallback, contexts,
                 nextBc, closing, targets, nextTid, pending, live>>
  /\ UNCHANGED bootVars
  /\ UNCHANGED connVars
  /\ UNCHANGED lookup
\* getBrowsingContext throws for an id the connection does not know.
DeliverNavigation(eventName, c, url) ==
  /\ Delivered(eventName)
  /\ IF c \notin DOMAIN index
     THEN /\ emitted' = <<>>
          /\ UNCHANGED index
     ELSE /\ index' = [index EXCEPT ![c].url = url]
          /\ emitted' =
               IF MapHas(targets, c)
               THEN LET target == MapGet(targets, c)
                    IN << Emission("browser", 0, "targetchanged", target.tid),
                          Emission("context", target.browserContext,
                                   "targetchanged", target.tid) >>
               ELSE <<>>
  /\ UNCHANGED <<locale, eventsBeforeReturn, hasCloseCallback, contexts,
                 nextBc, closing, targets, nextTid, pending, live>>
  /\ UNCHANGED bootVars
  /\ UNCHANGED connVars
  /\ UNCHANGED lookup

\* ----------------------------------------------- Browser.#onContextDestroyed
\* The Page of the target the handler found, if any.
PageOf(targetOpt) == { t \in targetOpt : HasPage(t) }

\* A browsingContext.contextDestroyed event is delivered: the handler runs up
\* to its first await (target?.page()).
DeliverContextDestroyed(c) ==
  /\ Delivered("browsingContext.contextDestroyed")
  /\ Len(pending) < MaxPending
  /\ LET top == getTopLevelContext(index, c)
     IN IF top = 0
        THEN /\ emitted' = <<>>
             /\ UNCHANGED pending
        ELSE /\ emitted' = <<Emission("toplevel", top, "destroyed", c)>>
             /\ pending' = Append(pending,
                  [context |-> c,
                   target |-> IF MapHas(targets, c) THEN {MapGet(targets, c)} ELSE {},
                   stage |-> "target.page()"])
  /\ live' = live \ {c}
  /\ UNCHANGED <<locale, eventsBeforeReturn, hasCloseCallback, contexts,
                 nextBc, closing, targets, nextTid, index>>
  /\ UNCHANGED bootVars
  /\ UNCHANGED connVars
  /\ UNCHANGED lookup

\* The await of target?.page() resumes: page?.close() is called, if there is
\* a page, and the handler awaits the outcome.
DestroyedPageResolved(i) ==
  /\ i \in 1..Len(pending)
  /\ pending[i].stage = "target.page()"
  /\ pending' = [pending EXCEPT ![i].stage =
       IF PageOf(pending[i].target) = {} THEN "no page" ELSE "page.close()"]
  /\ emitted' = <<>>
  /\ UNCHANGED <<locale, eventsBeforeReturn, hasCloseCallback, contexts,
                 nextBc, closing, targets, nextTid, index, live, bootEvents>>
  /\ UNCHANGED bootVars
  /\ UNCHANGED connVars
  /\ UNCHANGED lookup

\* The close of the page settles; a rejection is logged by the catch.
PageCloseSettled(i, ok) ==
  /\ i \in 1..Len(pending)
  /\ pending[i].stage = "page.close()"
  /\ pending' = [pending EXCEPT ![i].stage = IF ok THEN "closed" ELSE "close failed"]
  /\ emitted' = <<>>
  /\ UNCHANGED <<locale, eventsBeforeReturn, hasCloseCallback, contexts,
                 nextBc, closing, targets, nextTid, index, live, bootEvents>>
  /\ UNCHANGED bootVars
  /\ UNCHANGED connVars
  /\ UNCHANGED lookup

RemoveAt(s, i) == SubSeq(s, 1, i - 1) \o SubSeq(s, i + 1, Len(s))

CloseAwaited == {"no page", "closed", "close failed"}

\* DestroyedFinish with page.close() called but not awaited.
DestroyedFinish_NotAwaited(i) ==
  /\ i \in 1..Len(pending)
  /\ pending[i].stage \in CloseAwaited \cup {"page.close()"}
  /\ targets' = MapDelete(targets, pending[i].context)
  /\ emitted' =
       IF pending[i].target # {}
       THEN LET target == CHOOSE t \in pending[i].target : TRUE
            IN << Emission("browser", 0, "targetdestroyed", target.tid),
                  Emission("context", target.browserContext,
                           "targetdestroyed", target.tid) >>
       ELSE <<>>
  /\ pending' = RemoveAt(pending, i)
  /\ UNCHANGED <<locale, eventsBeforeReturn, hasCloseCallback, contexts,
                 nextBc, closing, nextTid, index, live, bootEvents>>
  /\ UNCHANGED bootVars
  /\ UNCHANGED connVars
  /\ UNCHANGED lookup

\* The await of page?.close() resumes: the entry is deleted and
\* target-destroyed is emitted.
DestroyedFinish(i) ==
  /\ i \in 1..Len(pending)
  /\ pending[i].stage \in CloseAwaited
  /\ targets' = MapDelete(targets, pending[i].context)
  /\ emitted' =
       IF pending[i].target # {}
       THEN LET target == CHOOSE t \in pending[i].target : TRUE
            IN << Emission("browser", 0, "targetdestroyed", target.tid),
                  Emission("context", target.browserContext,
                           "targetdestroyed", target.tid) >>
       ELSE <<>>
  /\ pending' = RemoveAt(pending, i)
  /\ UNCHANGED <<locale, eventsBeforeReturn, hasCloseCallback, contexts,
                 nextBc, closing, nextTid, index, live, bootEvents>>
  /\ UNCHANGED bootVars
  /\ UNCHANGED connVars
  /\ UNCHANGED lookup

\* ------------------------------------------------------------ Browser.close
\* CloseStart without the test of Connection.closed.
CloseStart_AlwaysDisposes ==
  /\ pc = "done"
  /\ Len(closeCalls) < MaxCloseCalls
  /\ handlersOn' = {}
  /\ connClosed' = TRUE
  /\ disposeLog' = Append(disposeLog, "close")
  /\ callbackCalls' = callbackCalls + (IF hasCloseCallback THEN 1 ELSE 0)
  /\ closeCalls' = Append(closeCalls,
       [stage |-> "closeCallback", disposed |-> TRUE,
        calledBack |-> hasCloseCallback, threw |-> FALSE])
  /\ emitted' = <<>>
  /\ UNCHANGED <<locale, eventsBeforeReturn, hasCloseCallback, processExited,
                 contexts, nextBc, closing, bootEvents>>
  /\ UNCHANGED bootVars
  /\ UNCHANGED registryVars
  /\ UNCHANGED lookup

\* CloseStart with the test of Connection.closed ahead of the loop that
\* unregisters the handlers.
CloseStart_ChecksClosedFirst ==
  /\ pc = "done"
  /\ Len(closeCalls) < MaxCloseCalls
  /\ IF connClosed
     THEN /\ closeCalls' = Append(closeCalls,
               [stage |-> "returned", disposed |-> FALSE, calledBack |-> FALSE,
                threw |-> FALSE])
          /\ UNCHANGED <<handlersOn, connClosed, disposeLog, callbackCalls>>
     ELSE /\ handlersOn' = {}
          /\ connClosed' = TRUE
          /\ disposeLog' = Append(disposeLog, "close")
          /\ callbackCalls' = callbackCalls + (IF hasCloseCallback THEN 1 ELSE 0)
          /\ closeCalls' = Append(closeCalls,
               [stage |-> "closeCallback", disposed |-> TRUE,
                calledBack |-> hasCloseCallback, threw |-> FALSE])
  /\ emitted' = <<>>
  /\ UNCHANGED <<locale, eventsBeforeReturn, hasCloseCallback, processExited,
                 contexts, nextBc, closing, bootEvents>>
  /\ UNCHANGED bootVars
  /\ UNCHANGED registryVars
  /\ UNCHANGED lookup

\* close() up to its await of the close callback.
CloseStart ==
  /\ pc = "done"
  /\ Len(closeCalls) < MaxCloseCalls
  /\ handlersOn' = {}
  /\ IF connClosed
     THEN /\ closeCalls' = Append(closeCalls,
               [stage |-> "returned", disposed |-> FALSE, calledBack |-> FALSE,
                threw |-> FALSE])
          /\ UNCHANGED <<connClosed, disposeLog, callbackCalls>>
     ELSE /\ connClosed' = TRUE
          /\ disposeLog' = Append(disposeLog, "close")
          /\ callbackCalls' = callbackCalls + (IF hasCloseCallback THEN 1 ELSE 0)
          /\ closeCalls' = Append(closeCalls,
               [stage |-> "closeCallback", disposed |-> TRUE,
                calledBack |-> hasCloseCallback, threw |-> FALSE])
  /\ emitted' = <<>>
  /\ UNCHANGED <<locale, eventsBeforeReturn, hasCloseCallback, processExited,
                 contexts, nextBc, closing, bootEvents>>
  /\ UNCHANGED bootVars
  /\ UNCHANGED registryVars
  /\ UNCHANGED lookup

\* The await of the close callback resumes; a rejection leaves close().
CloseSettled(i, ok) ==
  /\ i \in 1..Len(closeCalls)
  /\ closeCalls[i].stage = "closeCallback"
  /\ (~hasCloseCallback => ok)
  /\ closeCalls' = [closeCalls EXCEPT ![i].stage = "returned", ![i].threw = ~ok]
  /\ emitted' = <<>>
  /\ UNCHANGED <<locale, eventsBeforeReturn, hasCloseCallback, handlersOn,
                 connClosed, disposeLog, callbackCalls, processExited,
                 contexts, nextBc, closing, bootEvents>>
  /\ UNCHANGED bootVars
  /\ UNCHANGED registryVars
  /\ UNCHANGED lookup

\* The 'close' notification of the attached process (registered with once).
ProcessExit ==
  /\ Constructed
  /\ ~processExited
  /\ processExited' = TRUE
  /\ connClosed' = TRUE
  /\ disposeLog' = Append(disposeLog, "process")
  /\ emitted' = <<Emission("browser", 0, "disconnected", 0)>>
  /\ UNCHANGED <<locale, eventsBeforeReturn, hasCloseCallback, handlersOn,
                 callbackCalls, contexts, nextBc, closing, closeCalls,
                 bootEvents>>
  /\ UNCHANGED bootVars
  /\ UNCHANGED registryVars
  /\ UNCHANGED lookup

\* ------------------------------------ Browser.createIncognitoBrowserContext
CreateIncognitoBrowserContext ==
  /\ pc = "done"
  /\ nextBc <= MaxIncognito
  /\ contexts' = Append(contexts, nextBc)
  /\ nextBc' = nextBc + 1
  /\ emitted' = <<>>
  /\ UNCHANGED <<locale, eventsBeforeReturn, hasCloseCallback, closing,
                 bootEvents>>
  /\ UNCHANGED bootVars
  /\ UNCHANGED connVars
  /\ UNCHANGED registryVars
  /\ UNCHANGED lookup

\* ---------------------------------------------------- Browser._closeContext
\* BrowserContext.targets(): the registered targets owned by the context.
TargetsOf(bc) == SelectSeq(MapValues(targets), LAMBDA t : t.browserContext = bc)

\* _closeContext up to its first await; one invocation is in flight at a time.
CloseContextStart(bc) ==
  /\ pc = "done"
  /\ closing = {}
  /\ bc \in 0..(nextBc - 1)
  /\ contexts' = SelectSeq(contexts, LAMBDA c : c # bc)
  /\ closing' = IF TargetsOf(bc) = <<>> THEN {}
                ELSE {[browserContext |-> bc, todo |-> TargetsOf(bc),
                       stage |-> "target.page()", logged |-> 0]}
  /\ emitted' = <<>>
  /\ UNCHANGED <<locale, eventsBeforeReturn, hasCloseCallback, nextBc,
                 bootEvents>>
  /\ UNCHANGED bootVars
  /\ UNCHANGED connVars
  /\ UNCHANGED registryVars
  /\ UNCHANGED lookup

\* The await of target?.page() resumes and page?.close() is called.
CloseContextPageResolved ==
  /\ \E op \in closing :
       /\ op.stage = "target.page()"
       /\ closing' = {[op EXCEPT !.stage = "page.close()"]}
  /\ emitted' = <<>>
  /\ UNCHANGED <<locale, eventsBeforeReturn, hasCloseCallback, contexts,
                 nextBc, bootEvents>>
  /\ UNCHANGED bootVars
  /\ UNCHANGED connVars
  /\ UNCHANGED registryVars
  /\ UNCHANGED lookup

\* CloseContextCloseSettled without the catch: a failed close ends the loop.
CloseContextCloseSettled_Propagates(ok) ==
  /\ \E op \in closing :
       /\ op.stage = "page.close()"
       /\ (PageOf({Head(op.todo)}) = {} => ok)
       /\ closing' = IF Tail(op.todo) = <<>> \/ ~ok THEN {}
                     ELSE {[op EXCEPT !.todo = Tail(op.todo),
                                      !.stage = "target.page()"]}
  /\ emitted' = <<>>
  /\ UNCHANGED <<locale, eventsBeforeReturn, hasCloseCallback, contexts,
                 nextBc, bootEvents>>
  /\ UNCHANGED bootVars
  /\ UNCHANGED connVars
  /\ UNCHANGED registryVars
  /\ UNCHANGED lookup

\* The await of page?.close() resumes (a failure is logged by the catch) and
\* the loop goes on to the next target.
CloseContextCloseSettled(ok) ==
  /\ \E op \in closing :
       /\ op.stage = "page.close()"
       /\ (PageOf({Head(op.todo)}) = {} => ok)
       /\ closing' = IF Tail(op.todo) = <<>> THEN {}
                     ELSE {[op EXCEPT !.todo = Tail(op.todo),
                                      !.stage = "target.page()",
                                      !.logged = IF ok THEN @ ELSE @ + 1]}
  /\ emitted' = <<>>
  /\ UNCHANGED <<locale, eventsBeforeReturn, hasCloseCallback, contexts,
                 nextBc, bootEvents>>
  /\ UNCHANGED bootVars
  /\ UNCHANGED connVars
  /\ UNCHANGED registryVars
  /\ UNCHANGED lookup

\* ------------------------------------------------- Browser._getTargetById
\* GetTargetById with undefined returned for an id that is not registered.
GetTargetById_ReturnsUndefined(id) ==
  /\ pc = "done"
  /\ lookup' = { [id |-> id, threw |-> FALSE, error |-> "",
                  target |-> IF MapHas(targets, id)
                             THEN {MapGet(targets, id)} ELSE {}] }
  /\ emitted' = <<>>
  /\ UNCHANGED <<locale, eventsBeforeReturn, hasCloseCallback, contexts,
                 nextBc, closing, bootEvents>>
  /\ UNCHANGED bootVars
  /\ UNCHANGED connVars
  /\ UNCHANGED registryVars

\* _getTargetById(id): the registered Target, or the thrown error.
GetTargetById(id) ==
  /\ pc = "done"
  /\ lookup' = { IF MapHas(targets, id)
                 THEN [id |-> id, threw |-> FALSE, error |-> "",
                       target |-> {MapGet(targets, id)}]
                 ELSE [id |-> id, threw |-> TRUE, error |-> "Target not found",
                       target |-> {}] }
  /\ emitted' = <<>>
  /\ UNCHANGED <<locale, eventsBeforeReturn, hasCloseCallback, contexts,
                 nextBc, closing, bootEvents>>
  /\ UNCHANGED bootVars
  /\ UNCHANGED connVars
  /\ UNCHANGED registryVars

\* ------------------------------------------------------------------ queries
defaultBrowserContext == 0
browserContexts == contexts
targetsList == MapValues(targets)
isConnected == ~connClosed
version == browserName \o <<"/">> \o browserVersion

\* ------------------------------------------------------------ specifications
Bootstrap(names, versions) ==
  \/ \E n \in names, v \in versions : NegotiateOk(n, v)
  \/ NegotiateFail
  \/ SubscribeOk
  \/ SubscribeFail
  \/ \E r \in TreeResults : TreeOk(r)
  \/ TreeFail

\* A bootstrap in which no command fails.
PlainBootstrap ==
  \/ \E n \in MainNames, v \in MainVersions : NegotiateOk(n, v)
  \/ SubscribeOk
  \/ \E r \in TreeResults : TreeOk(r)

ContextEvents ==
  \/ \E c \in Ctx, p \in 0..MaxCtx : DeliverContextCreated(c, p)
  \/ \E c \in Ctx : DeliverContextDestroyed(c)
  \/ \E i \in 1..MaxPending : DestroyedPageResolved(i)
  \/ \E i \in 1..MaxPending, ok \in BOOLEAN : PageCloseSettled(i, ok)
  \/ \E i \in 1..MaxPending : DestroyedFinish(i)

NavigationEvents ==
  \E e \in {"browsingContext.fragmentNavigated", "browsingContext.navigationStarted"},
     c \in Ctx, u \in Urls : DeliverNavigation(e, c, u)

Shutdown ==
  \/ CloseStart
  \/ \E i \in 1..MaxCloseCalls, ok \in BOOLEAN : CloseSettled(i, ok)
  \/ ProcessExit

BrowserContexts ==
  \/ CreateIncognitoBrowserContext
  \/ \E bc \in 0..MaxIncognito : CloseContextStart(bc)
  \/ CloseContextPageResolved
  \/ \E ok \in BOOLEAN : CloseContextCloseSettled(ok)

\* Bootstrap and the protocol events, from the construction of the Browser on.
Next == Bootstrap(MainNames, MainVersions) \/ ContextEvents \/ NavigationEvents

Spec == Init /\ [][Next]_vars

\* Bootstrap alone, over every engine name, version and host locale.
NextBoot == Bootstrap(BootNames, BootVersions)

BootSpec == InitBoot /\ [][NextBoot]_vars

\* close() and the exit of the process, with the protocol events of a
\* Browser that create() has returned.
NextShutdown ==
  \/ PlainBootstrap
  \/ ContextEvents
  \/ NavigationEvents
  \/ Shutdown

ShutdownSpec == InitShutdown /\ [][NextShutdown]_vars

\* The Browser Context operations, with the context-created and
\* context-destroyed events of a Browser that create() has returned.
NextContexts ==
  \/ PlainBootstrap
  \/ ContextEvents
  \/ BrowserContexts

ContextsSpec == InitContexts /\ [][NextContexts]_vars

\* Lookups by id, with the context-created and context-destroyed events of
\* a Browser that create() has returned.
Lookup == \E id \in Ctx : GetTargetById(id)

NextLookup ==
  \/ PlainBootstrap
  \/ ContextEvents
  \/ Lookup

LookupSpec == InitContexts /\ [][NextLookup]_vars

\* ------------------------------------------------------------------ claims
\* A step in which a protocol event reaches its handler.
EventDelivered ==
  \/ \E c \in Ctx, p \in 0..MaxCtx : DeliverContextCreated(c, p)
  \/ \E c \in Ctx : DeliverContextDestroyed(c)
  \/ \E e \in {"browsingContext.fragmentNavigated", "browsingContext.navigationStarted"},
        c \in Ctx, u \in Urls : DeliverNavigation(e, c, u)

EmittedEvents == { emitted[i].ev : i \in 1..Len(emitted) }

CloseDisposals == Len(SelectSeq(disposeLog, LAMBDA d : d = "close"))

AllReturned == \A i \in 1..Len(closeCalls) : closeCalls[i].stage = "returned"

\* C1: once every context-destroyed handler has finished, the keys of the
\* Target registry are exactly the contexts created and not destroyed since.
C1_RegistryIsLiveSet ==
  (Constructed /\ pending = <<>>) => MapKeys(targets) = live

\* C2: from construction on, the default Browser Context is a member of the
\* Browser Context collection, whatever operation is applied.
C2_DefaultContextPresent ==
  Constructed => defaultBrowserContext \in Range(browserContexts)

\* C3 as stated: after two invocations of close() have returned, close() has
\* disposed the connection exactly once and invoked the close callback
\* exactly once, and the second invocation returned without an error.
C3_CloseExactlyOnce ==
  (Len(closeCalls) = 2 /\ AllReturned) =>
     /\ CloseDisposals = 1
     /\ (hasCloseCallback => callbackCalls = 1)
     /\ ~closeCalls[2].threw

\* C3 as amended: close() disposes the connection and invokes the close
\* callback at most once over all its invocations; exactly once when the
\* connection was open at the first invocation (the first dispose is the one
\* of close()), not at all when it was closed already; every invocation
\* after the first disposes nothing, invokes nothing and returns at once
\* without an error.
C3_CloseAtMostOnce ==
  /\ CloseDisposals <= 1
  /\ callbackCalls <= 1
  /\ closeCalls # <<>> =>
       /\ disposeLog # <<>>
       /\ CloseDisposals = (IF disposeLog[1] = "close" THEN 1 ELSE 0)
       /\ callbackCalls =
            (IF disposeLog[1] = "close" /\ hasCloseCallback THEN 1 ELSE 0)
  /\ \A i \in 2..Len(closeCalls) :
       closeCalls[i] = [stage |-> "returned", disposed |-> FALSE,
                        calledBack |-> FALSE, threw |-> FALSE]

\* C3 witness: a second close() has returned while the first one is still
\* awaiting the close callback.
C3_Witness ==
  /\ Len(closeCalls) = 2
  /\ closeCalls[1].stage = "closeCallback"
  /\ closeCalls[2].stage = "returned"
  /\ callbackCalls = 1

\* The close the handler awaits has settled: the page close has completed or
\* failed when the target has a page, and there was none to await otherwise.
CloseHasSettled(h) ==
  IF PageOf(h.target) # {} THEN h.stage \in {"closed", "close failed"}
  ELSE h.stage = "no page"

C5_HandlersRunInOrder ==
  [][ EventDelivered => pending = <<>> ]_vars

\* C6: once close() has been called none of the four handlers is registered,
\* also when the connection was closed before, and no protocol event reaches
\* a handler any more.
C6_NoHandlerAfterClose ==
  [][ /\ closeCalls' # <<>> => handlersOn' = {}
      /\ closeCalls # <<>> => ~EventDelivered ]_vars

\* C6 witness: close() was called on a connection that the exit of the
\* process had closed before, with a context-destroyed handler in flight.
C6_Witness ==
  /\ closeCalls # <<>>
  /\ ~closeCalls[1].disposed
  /\ handlersOn = {}
  /\ pending # <<>>

\* C7: when browsingContext.getTree fails, create() fails and returns no
\* Browser, whether session.new succeeded or failed.
C7_TreeFailurePropagates ==
  treeFetch = "failed" => (pc = "failed" /\ failedAt = "getTree")

\* C7 witness: the tree fetch failed after a failed negotiation.
C7_Witness ==
  /\ treeFetch = "failed"
  /\ negotiation = "failed"
  /\ pc = "failed"

\* C8: when create() returns, every context of the list that getTree
\* returned has a registry entry, and when no protocol event was handled
\* during bootstrap the registry holds exactly one page target per returned
\* context and no nested target.
C8_RegistrySeeded ==
  [][ \A r \in TreeResults :
        (TreeOk(r) /\ pc' = "done") =>
           /\ TopIds(r) \subseteq MapKeys(targets')
           /\ bootEvents = 0 =>
                /\ Len(targets') = Len(r)
                /\ MapKeys(targets') = TopIds(r)
                /\ \A i \in 1..Len(targets') : targets'[i].value.kind = "page" ]_vars

\* C8 witness: create() has just returned after seeding two contexts.
C8_Witness ==
  /\ pc = "done"
  /\ Len(emitted) = 4
  /\ Len(targets) = 2
  /\ \A i \in 1..Len(targets) : targets[i].value.kind = "page"

\* C9: after a failed session.new the name and the version are empty,
\* version() is "/", the subscription request has been sent with the list
\* for a non-Firefox engine, create() never fails at session.new, and it
\* returns the Browser when the tree fetch succeeds.
C9_NegotiationFailureTolerated ==
  negotiation = "failed" =>
     /\ browserName = <<>>
     /\ browserVersion = <<>>
     /\ version = <<"/">>
     /\ subscribed = <<subscribeModules \o subscribeCdpEvents>>
     /\ failedAt \in {"none", "session.subscribe", "getTree"}
     /\ pc # "session.new"
     /\ (treeFetch = "ok" => (pc = "done" /\ Constructed))

\* C9 witness: create() has returned a Browser after a failed negotiation.
C9_Witness ==
  /\ negotiation = "failed"
  /\ pc = "done"
  /\ handlersOn = connectionEventHandlers

UpperOf(ch) ==
  IF \E i \in 1..Len(LowerCase) : LowerCase[i] = ch
  THEN UpperCase[CHOOSE i \in 1..Len(LowerCase) : LowerCase[i] = ch]
  ELSE ch

\* s contains sub, letter case ignored (sub is in lower case)
ContainsAnyCase(s, sub) ==
  \E i \in 1..(Len(s) - Len(sub) + 1) :
     \A j \in 1..Len(sub) : s[i + j - 1] \in {sub[j], UpperOf(sub[j])}

\* C10: the subscription request depends on the negotiated name alone: the
\* 3 base modules when the name contains "firefox" in any letter case, the 3
\* base modules and the 6 debug events otherwise.
C10_SubscriptionByName ==
  \A i \in 1..Len(subscribed) :
     subscribed[i] = IF ContainsAnyCase(browserName, firefox)
                     THEN subscribeModules
                     ELSE subscribeModules \o subscribeCdpEvents

\* C11: a context-created event registers a page target when the context
\* has no parent and a nested target when it has one; the variant of a
\* registered Target object never changes in a later step.
C11_VariantChosenAtCreation ==
  [][ /\ \A c \in Ctx, p \in 0..MaxCtx :
           DeliverContextCreated(c, p) =>
              /\ MapHas(targets', c)
              /\ MapGet(targets', c).tid = nextTid
              /\ MapGet(targets', c).kind = (IF p = 0 THEN "page" ELSE "nested")
      /\ \A i \in 1..Len(targets), j \in 1..Len(targets') :
           targets[i].value.tid = targets'[j].value.tid =>
              targets'[j].value.kind = targets[i].value.kind ]_vars

\* C11 witness: a page target and a nested target are registered and a
\* navigation has just been handled.
C11_Witness ==
  /\ \E i, j \in 1..Len(targets) :
        /\ targets[i].value.kind = "page"
        /\ targets[j].value.kind = "nested"
        /\ index[targets[j].key].parent # 0
        /\ index[targets[i].key].parent = 0
  /\ "targetchanged" \in EmittedEvents

\* C12: a context-destroyed event for a context that the connection knows
\* and that has no registered Target emits the destroyed notification on the
\* top-level ancestor; its handler emits no target-destroyed and leaves the
\* registry unchanged.
C12_DestroyedWithoutTarget ==
  [][ /\ \A c \in Ctx :
           (DeliverContextDestroyed(c) /\ ~MapHas(targets, c)
              /\ c \in DOMAIN index) =>
              /\ emitted' = << Emission("toplevel", getTopLevelContext(index, c),
                                        "destroyed", c) >>
              /\ targets' = targets
      /\ \A i \in 1..Len(pending) :
           (/\ pending[i].target = {}
            /\ \/ DestroyedPageResolved(i)
               \/ \E ok \in BOOLEAN : PageCloseSettled(i, ok)
               \/ DestroyedFinish(i)) =>
              /\ "targetdestroyed" \notin EmittedEvents'
              /\ targets' = targets ]_vars

\* C13: _getTargetById returns the registered Target for an id that is a key
\* of the registry and throws 'Target not found' for every other id, whether
\* never registered or registered and destroyed since; the registry is left
\* unchanged in both cases.
C13_LookupById ==
  [][ \A id \in Ctx :
        GetTargetById(id) =>
           /\ targets' = targets
           /\ \E r \in lookup' :
                /\ lookup' = {r}
                /\ r.id = id
                /\ IF id \in MapKeys(targets)
                   THEN /\ ~r.threw
                        /\ \E i \in 1..Len(targets) :
                              /\ targets[i].key = id
                              /\ r.target = {targets[i].value}
                   ELSE /\ r.threw
                        /\ r.error = "Target not found"
                        /\ r.target = {} ]_vars

\* C13 witness: a lookup has failed for an id that was registered and
\* destroyed since, while another Target is registered.
C13_Witness ==
  \E r \in lookup :
     /\ r.threw
     /\ r.id \in DOMAIN index
     /\ ~MapHas(targets, r.id)
     /\ targets # <<>>

\* C14: a navigation-started or fragment-navigated event for a context that
\* the connection knows stores the url of the event on the context; it
\* changes neither the Target registry nor the Browser Context collection;
\* it emits target-changed on the Browser and on the owning Browser Context
\* when a Target is registered for the context, and nothing otherwise.
C14_NavigationEffect ==
  [][ \A e \in { "browsingContext.fragmentNavigated",
                  "browsingContext.navigationStarted" },
         c \in Ctx, u \in Urls :
        DeliverNavigation(e, c, u) =>
           /\ c \in DOMAIN index =>
                /\ index'[c].url = u
                /\ \A d \in DOMAIN index \ {c} : index'[d] = index[d]
           /\ DOMAIN index' = DOMAIN index
           /\ targets' = targets
           /\ contexts' = contexts
           /\ IF c \in MapKeys(targets)
              THEN \E i \in 1..Len(targets) :
                      /\ targets[i].key = c
                      /\ emitted' =
                           << Emission("browser", 0, "targetchanged",
                                       targets[i].value.tid),
                              Emission("context", targets[i].value.browserContext,
                                       "targetchanged", targets[i].value.tid) >>
              ELSE emitted' = <<>> ]_vars

\* C14 witness: a navigation has just been handled for a context with a
\* registered Target, and another context that was navigated has no Target.
C14_Witness ==
  /\ "targetchanged" \in EmittedEvents
  /\ \E c, d \in DOMAIN index :
        /\ MapHas(targets, c)
        /\ index[c].url = "http://a/"
        /\ emitted[1].arg = MapGet(targets, c).tid
        /\ ~MapHas(targets, d)
        /\ index[d].url = "http://a/"

\* C15: the Target that a context-created event creates is owned by the
\* last element of the Browser Context collection at that moment, and
\* target-created is emitted on the Browser and on that Browser Context
\* alone; the same holds for the Targets seeded from the tree; with an empty
\* collection no Target is created.
C15_OwnedByNewestContext ==
  [][ /\ \A c \in Ctx, p \in 0..MaxCtx :
           DeliverContextCreated(c, p) =>
              IF contexts = <<>>
              THEN targets' = targets /\ emitted' = <<>>
              ELSE LET bc == contexts[Len(contexts)]
                   IN /\ MapHas(targets', c)
                      /\ MapGet(targets', c).tid = nextTid
                      /\ MapGet(targets', c).browserContext = bc
                      /\ Len(emitted') >= 2
                      /\ emitted'[1] =
                           Emission("browser", 0, "targetcreated", nextTid)
                      /\ emitted'[2] =
                           Emission("context", bc, "targetcreated", nextTid)
                      /\ \A k \in 1..Len(emitted') :
                           emitted'[k].scope = "context" => emitted'[k].id = bc
      /\ \A r \in TreeResults :
           (TreeOk(r) /\ contexts # <<>>) =>
              \A c \in TopIds(r) :
                 /\ MapHas(targets', c)
                 /\ MapGet(targets', c).browserContext = contexts[Len(contexts)]
                 /\ \A k \in 1..Len(emitted') :
                      emitted'[k].scope = "context" =>
                         emitted'[k].id = contexts[Len(contexts)] ]_vars

\* C15 witness: after createIncognitoBrowserContext a context-created event
\* has just made a Target owned by the new Browser Context, not the default.
C15_Witness ==
  /\ contexts = <<0, 1>>
  /\ Len(emitted) >= 2
  /\ emitted[2].scope = "context"
  /\ emitted[2].ev = "targetcreated"
  /\ emitted[2].id = 1
  /\ \E i \in 1..Len(targets) :
        /\ targets[i].value.tid = emitted[2].arg
        /\ targets[i].value.browserContext = 1
  /\ \E i \in 1..Len(targets) : targets[i].value.browserContext = 0

\* C16: _closeContext removes the Browser Context from the collection and
\* goes through every target the context owns; when the close of one
\* target's page has settled, with success or with a failure, the helper
\* goes on to the next target, and it ends only after the last one.
C16_CloseContextIsolatesFailures ==
  [][ /\ \A bc \in 0..MaxIncognito :
           CloseContextStart(bc) =>
              LET owned == { i \in 1..Len(targets) :
                               targets[i].value.browserContext = bc }
              IN /\ bc \notin Range(contexts')
                 /\ \A c \in Range(contexts) \ {bc} : c \in Range(contexts')
                 /\ IF owned = {} THEN closing' = {}
                    ELSE \E op \in closing' :
                            /\ closing' = {op}
                            /\ Len(op.todo) = Cardinality(owned)
                            /\ Range(op.todo) =
                                 { targets[i].value : i \in owned }
      /\ \A ok \in BOOLEAN :
           CloseContextCloseSettled(ok) =>
              \E op \in closing :
                 /\ contexts' = contexts
                 /\ IF Len(op.todo) = 1 THEN closing' = {}
                    ELSE \E op2 \in closing' :
                            /\ closing' = {op2}
                            /\ op2.todo = Tail(op.todo)
                            /\ op2.stage = "target.page()"
      /\ (closing # {} /\ closing' = {}) =>
           \E op \in closing :
              Len(op.todo) = 1 /\ op.stage = "page.close()" ]_vars

\* C16 witness: the close of the first page has failed and was logged, and
\* the helper is closing the page of the next target of the context.
C16_Witness ==
  \E op \in closing :
     /\ op.logged = 1
     /\ op.stage = "page.close()"
     /\ HasPage(Head(op.todo))
     /\ op.browserContext \notin Range(contexts)

\* The contexts for which the step emits target-created on the Browser: the
\* Target objects made in the step are numbered from nextTid on.
CreatedFor ==
  { c \in Ctx : \E k \in 1..Len(emitted') :
       /\ emitted'[k].scope = "browser"
       /\ emitted'[k].ev = "targetcreated"
       /\ MapHas(targets', c)
       /\ MapGet(targets', c).tid = emitted'[k].arg
       /\ emitted'[k].arg >= nextTid }

\* C17: target-created is emitted for a context only when no Target is
\* registered for it and none awaits its target-destroyed, so that
\* target-created and target-destroyed alternate for every context id and no
\* registered Target is replaced.
C17_CreatedDestroyedAlternate ==
  [][ \A c \in CreatedFor :
        /\ ~MapHas(targets, c)
        /\ \A i \in 1..Len(pending) :
              pending[i].context = c => pending[i].target = {} ]_vars

\* C18: the Browser Context that owns a registered Target is a member of the
\* Browser Context collection.
C18_OwnerIsMember ==
  \A i \in 1..Len(targetsList) :
     targetsList[i].browserContext \in Range(browserContexts)

\* C19: over the lifetime of a Browser, Connection.dispose() is called at
\* most once, whatever the order of the close() calls and of the exit of the
\* process.
C19_DisposeAtMostOnce ==
  Len(disposeLog) <= 1

\* C20: when create() has failed because the tree fetch failed, none of the
\* four handlers is registered on the Connection, and no protocol event
\* reaches a handler afterwards.
C20_FailedBootstrapDetaches ==
  [][ /\ (treeFetch' = "failed" /\ pc' = "failed") => handlersOn' = {}
      /\ (treeFetch = "failed" /\ pc = "failed") => ~EventDelivered ]_vars
====
